---- MODULE Spec2Model ----
(***************************************************************************)
(* Model of nimby2sql: build_graph.py (basic variant, GraphML) and         *)
(* nimby_rails.py (extended variant, Cypher).                              *)
(*                                                                         *)
(* Text is a sequence of characters; a character is a one-token string.    *)
(* Non-ASCII letters are written as tokens ("auml" is a-umlaut, "eacute"   *)
(* is e-acute, "szlig" is sharp s).                                        *)
(***************************************************************************)
EXTENDS Integers, Sequences, FiniteSets, TLC

VARIABLES
    pc,               \* position of the run
    raised,           \* the exception that ended the run, "" if none
    source_to_name,   \* build_unique_ids: the input pairs, in input order
    fallback_prefix,  \* build_unique_ids: the fallback prefix
    mapping,          \* build_unique_ids: the returned mapping
    reordered,        \* the same pairs in another order (second run)
    mapping2,         \* the mapping returned by the second run
    lat1, lon1,       \* haversine_m: the first point
    lat2, lon2,       \* haversine_m: the second point
    distance,         \* haversine_m: the returned distance
    station_sequence, \* infer_route_type: the station identifiers of a line
    route_type,       \* infer_route_type: the returned shape
    variant,          \* "basic" (build_graph.py) or "extended" (nimby_rails.py)
    directed,         \* args.directed (basic)
    sanitize,         \* args.sanitize (basic)
    stations_in,      \* the stations dictionary, in insertion order
    lines_in,         \* the lines dictionary, in insertion order (extended)
    stops_by_line,    \* the stops dictionary, in insertion order
    id_map,           \* id_map (basic), station_id_map (extended)
    route_id_map,     \* route_id_map (extended)
    stations,         \* the list of station records
    edges,            \* the accumulator: edges (basic), connections (extended)
    connections,      \* the records returned: connections (basic),
                      \* connection_rows (extended)
    routes,           \* the list of route records (extended)
    servings,         \* the list of serving records (extended)
    station_types,    \* station identifier -> set of transport types (extended)
    li,               \* index of the line being processed
    si,               \* index i of the running loop over the stops of the line
    removed,          \* the count of removed stations (sanitize)
    input_is_file,    \* main: the input database is a file
    db_tables,        \* main: the names of the tables of the input database
    force,            \* args.force
    out_file,         \* the output path: "absent", "old" (the content it had
                      \* before the run) or "new" (written by this run)
    out_at_start      \* what the output path held when the run started

idvars == <<source_to_name, fallback_prefix, mapping, reordered, mapping2>>

distvars == <<lat1, lon1, lat2, lon2, distance>>

shapevars == <<station_sequence, route_type>>

inputvars == <<variant, directed, sanitize, stations_in, lines_in, stops_by_line>>

buildvars == <<id_map, route_id_map, stations, edges, connections, routes,
               servings, station_types, li, si, removed>>

mainvars == <<input_is_file, db_tables, force, out_file, out_at_start>>

vars == <<pc, raised, idvars, distvars, shapevars, inputvars, buildvars,
          mainvars>>

----------------------------------------------------------------------------
(* Characters and strings *)

UpperChars == <<"A","B","C","D","E","F","G","H","I","J","K","L","M",
                "N","O","P","Q","R","S","T","U","V","W","X","Y","Z">>

LowerChars == <<"a","b","c","d","e","f","g","h","i","j","k","l","m",
                "n","o","p","q","r","s","t","u","v","w","x","y","z">>

DigitChars == <<"0","1","2","3","4","5","6","7","8","9">>

\* every character of the model, in code point order
Chars == <<" ", "-">> \o DigitChars \o UpperChars \o <<"_">> \o LowerChars
         \o <<"szlig", "auml", "eacute", "ouml", "uuml">>

Range(s) == {s[i] : i \in DOMAIN s}

\* position of every character in code point order
OrdOf == [c \in Range(Chars) |-> CHOOSE i \in DOMAIN Chars : Chars[i] = c]

Ord(c) == OrdOf[c]

\* Python's str < str: lexicographic by code point
RECURSIVE StrLess(_, _)
StrLess(s, t) ==
    IF t = <<>> THEN FALSE
    ELSE IF s = <<>> THEN TRUE
    ELSE IF s[1] = t[1] THEN StrLess(Tail(s), Tail(t))
    ELSE Ord(s[1]) < Ord(t[1])

\* str(n) for a natural number
RECURSIVE Digits(_)
Digits(n) ==
    IF n < 10 THEN <<DigitChars[n + 1]>>
    ELSE Digits(n \div 10) \o <<DigitChars[(n % 10) + 1]>>

\* str.strip(chars): drop leading and trailing characters of a set
RECURSIVE LStrip(_, _)
LStrip(s, cs) ==
    IF s # <<>> /\ s[1] \in cs THEN LStrip(Tail(s), cs) ELSE s

RECURSIVE RStrip(_, _)
RStrip(s, cs) ==
    IF s # <<>> /\ s[Len(s)] \in cs
    THEN RStrip(SubSeq(s, 1, Len(s) - 1), cs)
    ELSE s

Strip(s, cs) == RStrip(LStrip(s, cs), cs)

\* the lowercase form of every character
LowerOf ==
    [c \in Range(Chars) |->
        IF c \in Range(UpperChars)
        THEN LowerChars[CHOOSE i \in DOMAIN UpperChars : UpperChars[i] = c]
        ELSE c]

\* str.lower()
RECURSIVE Lower(_)
Lower(s) ==
    IF s = <<>> THEN <<>> ELSE <<LowerOf[s[1]]>> \o Lower(Tail(s))

\* what the four .replace() calls make of one character
UmlautChar(c) ==
    CASE c = "auml"  -> <<"a", "e">>
      [] c = "ouml"  -> <<"o", "e">>
      [] c = "uuml"  -> <<"u", "e">>
      [] c = "szlig" -> <<"s", "s">>
      [] OTHER       -> <<c>>

\* .replace(a-umlaut, "ae").replace(o-umlaut, "oe")
\* .replace(u-umlaut, "ue").replace(sharp s, "ss")
RECURSIVE ReplaceUmlauts(_)
ReplaceUmlauts(s) ==
    IF s = <<>> THEN <<>> ELSE UmlautChar(s[1]) \o ReplaceUmlauts(Tail(s))

\* NFKD decomposition, then encode("ascii", "ignore"), of one character
AsciiChar(c) ==
    CASE c = "eacute" -> <<"e">>
      [] c \in {"szlig", "auml", "ouml", "uuml"} -> <<>>
      [] OTHER -> <<c>>

\* unicodedata.normalize("NFKD", value).encode("ascii", "ignore")
RECURSIVE ToAscii(_)
ToAscii(s) ==
    IF s = <<>> THEN <<>> ELSE AsciiChar(s[1]) \o ToAscii(Tail(s))

SlugChars == Range(LowerChars) \cup Range(DigitChars)

IsSlugChar(c) == c \in SlugChars

\* re.sub(r"[^a-z0-9]+", "_", value)
RECURSIVE CollapseRuns(_)
CollapseRuns(s) ==
    IF s = <<>> THEN <<>>
    ELSE IF IsSlugChar(s[1]) THEN <<s[1]>> \o CollapseRuns(Tail(s))
    ELSE IF Len(s) > 1 /\ ~IsSlugChar(s[2]) THEN CollapseRuns(Tail(s))
    ELSE <<"_">> \o CollapseRuns(Tail(s))

\* value or fallback
OrFallback(value, fallback) == IF value = <<>> THEN fallback ELSE value

normalize_name(text, fallback) ==
    OrFallback(
        Strip(CollapseRuns(ToAscii(ReplaceUmlauts(Lower(Strip(text, {" "}))))),
              {"_"}),
        fallback)

----------------------------------------------------------------------------
(* Identifier Assigner *)

\* the (source_id, base) entry of one input pair
EntryOf(pair, prefix) ==
    LET source_fb == normalize_name(pair[1], prefix)
    IN  <<pair[1], normalize_name(pair[2], prefix \o <<"_">> \o source_fb)>>

\* the sort key (x[1], x[0]) of the code, compared as Python tuples
EntryLess(x, y) ==
    \/ StrLess(x[2], y[2])
    \/ x[2] = y[2] /\ StrLess(x[1], y[1])

\* list.sort(key=...): stable, ascending
RECURSIVE InsertEntry(_, _)
InsertEntry(sorted, e) ==
    IF sorted = <<>> THEN <<e>>
    ELSE IF EntryLess(e, sorted[1]) THEN <<e>> \o sorted
    ELSE <<sorted[1]>> \o InsertEntry(Tail(sorted), e)

\* entries.sort(...): a mutant keeps the input order
SortEntriesUnsorted(entries) == entries

RECURSIVE SortEntries(_)
SortEntries(entries) ==
    IF entries = <<>> THEN <<>>
    ELSE InsertEntry(SortEntries(SubSeq(entries, 1, Len(entries) - 1)),
                     entries[Len(entries)])

\* a mutant numbers the second entry of a base 1, the third 2, ...
SuffixedIdOffByOne(base, count) ==
    IF count = 1 THEN base ELSE base \o <<"_">> \o Digits(count - 1)

\* the identifier of the count-th entry of a base
SuffixedId(base, count) ==
    IF count = 1 THEN base ELSE base \o <<"_">> \o Digits(count)

\* the loop over the sorted entries, with its counts and mapping
RECURSIVE AssignIds(_, _, _)
AssignIds(entries, counts, map) ==
    IF entries = <<>> THEN map
    ELSE LET source_id == entries[1][1]
             base      == entries[1][2]
             count     == (IF base \in DOMAIN counts THEN counts[base] ELSE 0) + 1
         IN  AssignIds(Tail(entries),
                       (base :> count) @@ counts,
                       (source_id :> SuffixedId(base, count)) @@ map)

EmptyMap == [x \in {} |-> <<>>]

build_unique_ids(pairs, prefix) ==
    LET entries == [i \in DOMAIN pairs |-> EntryOf(pairs[i], prefix)]
    IN  AssignIds(SortEntries(entries), EmptyMap, EmptyMap)

----------------------------------------------------------------------------
(* Parts of the state a specification does not use *)

IdsIdle ==
    /\ source_to_name = <<>>
    /\ fallback_prefix = <<>>
    /\ mapping = EmptyMap
    /\ reordered = <<>>
    /\ mapping2 = EmptyMap

DistIdle ==
    /\ lat1 = 0 /\ lon1 = 0 /\ lat2 = 0 /\ lon2 = 0
    /\ distance = 0

ShapeIdle ==
    /\ station_sequence = <<>>
    /\ route_type = ""

\* the checks of main have passed, or are no part of the run
MainIdle ==
    /\ input_is_file = TRUE /\ db_tables = {} /\ force = FALSE
    /\ out_file = "absent" /\ out_at_start = "absent"

BuildIdle ==
    /\ MainIdle
    /\ variant = "" /\ directed = FALSE /\ sanitize = FALSE
    /\ stations_in = <<>> /\ lines_in = <<>> /\ stops_by_line = <<>>
    /\ id_map = EmptyMap /\ route_id_map = EmptyMap
    /\ stations = <<>> /\ edges = EmptyMap /\ connections = <<>>
    /\ routes = <<>> /\ servings = <<>> /\ station_types = EmptyMap
    /\ li = 0 /\ si = 0 /\ removed = 0

----------------------------------------------------------------------------
(* Inputs of the Identifier Assigner *)

\* the largest number of pairs given to one call
MaxPairs == 3

SourceKeys == { <<"a","1">>, <<"a","2">>, <<"b","7">>, <<"-">> }

DisplayNames ==
    { <<"C","e","n","t","r","a","l">>,
      <<"C","e","n","t","r","a","l"," ","2">>,
      <<" ","c","eacute","n","t","r","a","l","_","2"," ">>,
      <<"Z","auml","-","o","o">>,
      <<>> }

Prefixes == { <<"s","t","a","t","i","o","n">>, <<"r","o","u","t","e">> }

KeysOf(pairs) == {pairs[i][1] : i \in DOMAIN pairs}

\* sequences of pairs with pairwise distinct source keys, in key order (the
\* first call gets them so, the second call in any order)
PairSeqs ==
    UNION { { s \in [1..n -> SourceKeys \X DisplayNames] :
                \A i, j \in 1..n : i < j => StrLess(s[i][1], s[j][1]) }
            : n \in 0..MaxPairs }

Orderings(s) ==
    { t \in [DOMAIN s -> Range(s)] : Range(t) = Range(s) }

InitIds ==
    /\ pc = "ids_start"
    /\ raised = ""
    /\ source_to_name \in PairSeqs
    /\ fallback_prefix \in Prefixes
    /\ mapping = EmptyMap
    /\ reordered = <<>>
    /\ mapping2 = EmptyMap
    /\ DistIdle
    /\ ShapeIdle
    /\ BuildIdle

\* one call of build_unique_ids
Assign ==
    /\ pc = "ids_start"
    /\ mapping' = build_unique_ids(source_to_name, fallback_prefix)
    /\ pc' = "ids_assigned"
    /\ UNCHANGED <<raised, source_to_name, fallback_prefix, reordered, mapping2>>
    /\ UNCHANGED <<distvars, shapevars, inputvars, buildvars, mainvars>>

\* a second call with the same pairs in any order
AssignReordered ==
    /\ pc = "ids_assigned"
    /\ \E t \in Orderings(source_to_name) :
         /\ reordered' = t
         /\ mapping2' = build_unique_ids(t, fallback_prefix)
    /\ pc' = "ids_reassigned"
    /\ UNCHANGED <<raised, source_to_name, fallback_prefix, mapping>>
    /\ UNCHANGED <<distvars, shapevars, inputvars, buildvars, mainvars>>

NextIds == Assign \/ AssignReordered

SpecIds == InitIds /\ [][NextIds]_vars

----------------------------------------------------------------------------
(* Geo-Distance Calculator *)

(* A coordinate is a whole number of steps; one step of latitude is the arc *)
(* of half a metre on a sphere of radius r = 6 371 000 m, so that r * c,    *)
(* the great-circle distance the code rounds, is a whole number of half     *)
(* metres for two points of one meridian.                                   *)

\* 180 degrees in steps: pi * r = 20 015 086.8 m, in half metres
HalfTurn == 40030174

\* 1 degree and 8 degrees in steps
Deg1 == 222390

Deg8 == 1779119

Abs(x) == IF x < 0 THEN -x ELSE x

Max(x, y) == IF x < y THEN y ELSE x

\* the two points lie opposite each other on the sphere
Antipodal(la1, lo1, la2, lo2) ==
    Abs(lo2 - lo1) = HalfTurn /\ la1 + la2 = 0

\* r * c in half metres, for two points of one meridian (dlambda = 0,
\* a = sin(dphi / 2) ** 2, c = |dphi|) and for two antipodal points (c = pi)
GreatCircleHalfMetres(la1, lo1, la2, lo2) ==
    IF Antipodal(la1, lo1, la2, lo2) THEN HalfTurn ELSE Abs(la2 - la1)

\* the latitudes of the antipodal pairs of the model at which the floating
\* point sum a = sin(dphi / 2) ** 2 + cos(p1) * cos(p2) * sin(dlambda / 2) ** 2
\* evaluates to 1.0000000000000002 and not to 1.0 (at 0, 1, 45 and 90
\* degrees it is 1.0, at 8 degrees it is above)
LatsAboveOne == {Deg8, -Deg8}

\* 1 - a < 0: math.sqrt(1 - a) raises ValueError
SqrtDomainError(la1, lo1, la2, lo2) ==
    Antipodal(la1, lo1, la2, lo2) /\ la1 \in LatsAboveOne

\* round(x) for x = halves / 2: to the nearest integer, a tie to the even one
PyRound(halves) ==
    LET q == halves \div 2
    IN  IF halves % 2 = 0 THEN q
        ELSE IF q % 2 = 0 THEN q ELSE q + 1

\* max(1, ...)
Clamp(n) == Max(1, n)

\* the outcome of a call: the exception raised ("" if none) and the value
haversine_m(la1, lo1, la2, lo2) ==
    IF SqrtDomainError(la1, lo1, la2, lo2)
    THEN [raised |-> "ValueError", value |-> 0]
    ELSE [raised |-> "",
          value  |-> Clamp(PyRound(GreatCircleHalfMetres(la1, lo1, la2, lo2)))]

\* the largest latitude, in steps, of the points of one meridian
MaxLat == 5

MeridianLats == (-MaxLat)..MaxLat

AntipodalLats == {0, Deg1, -Deg1, Deg8, -Deg8}

InitDist ==
    /\ pc = "dist_start"
    /\ raised = ""
    /\ \/ /\ lat1 \in MeridianLats /\ lat2 \in MeridianLats
          /\ lon1 \in {0, -HalfTurn} /\ lon2 = lon1
       \/ /\ lat1 \in AntipodalLats /\ lat2 = -lat1
          /\ lon1 \in {0, -HalfTurn} /\ lon2 = lon1 + HalfTurn
    /\ distance = 0
    /\ IdsIdle
    /\ ShapeIdle
    /\ BuildIdle

\* one call of haversine_m
Haversine ==
    /\ pc = "dist_start"
    /\ LET r == haversine_m(lat1, lon1, lat2, lon2)
       IN  /\ raised' = r.raised
           /\ distance' = r.value
           /\ pc' = IF r.raised = "" THEN "dist_returned" ELSE "dist_raised"
    /\ UNCHANGED <<lat1, lon1, lat2, lon2, idvars, shapevars>>
    /\ UNCHANGED <<inputvars, buildvars, mainvars>>

NextDist == Haversine

SpecDist == InitDist /\ [][NextDist]_vars

----------------------------------------------------------------------------
(* Route shape *)

\* a mutant looks for a repeated station before it compares the two ends
infer_route_type_RepeatFirst(seq) ==
    IF Len(seq) # Cardinality(Range(seq)) THEN "OutAndBack"
    ELSE IF Len(seq) >= 2 /\ seq[1] = seq[Len(seq)] THEN "Circular"
    ELSE "Linear"

infer_route_type(seq) ==
    IF Len(seq) >= 2 /\ seq[1] = seq[Len(seq)] THEN "Circular"
    ELSE IF Len(seq) # Cardinality(Range(seq)) THEN "OutAndBack"
    ELSE "Linear"

\* the largest number of stops of a classified sequence
MaxSeqLen == 4

ShapeStations == { <<"a">>, <<"b">>, <<"c">> }

InitShape ==
    /\ pc = "shape_start"
    /\ raised = ""
    /\ station_sequence \in UNION { [1..n -> ShapeStations] : n \in 0..MaxSeqLen }
    /\ route_type = ""
    /\ IdsIdle
    /\ DistIdle
    /\ BuildIdle

\* one call of infer_route_type
InferRouteType ==
    /\ pc = "shape_start"
    /\ route_type' = infer_route_type(station_sequence)
    /\ pc' = "shape_returned"
    /\ UNCHANGED <<raised, station_sequence, idvars, distvars>>
    /\ UNCHANGED <<inputvars, buildvars, mainvars>>

NextShape == InferRouteType

SpecShape == InitShape /\ [][NextShape]_vars

----------------------------------------------------------------------------
(* Topology Builder: helpers of both variants *)

StationPrefix == <<"s","t","a","t","i","o","n">>

RoutePrefix == <<"r","o","u","t","e">>

Min(x, y) == IF x < y THEN x ELSE y

\* the keys of the stations dictionary
StationKeysIn == {stations_in[i].station_id : i \in DOMAIN stations_in}

\* stations_in[key]
StationIn(key) ==
    stations_in[CHOOSE i \in DOMAIN stations_in : stations_in[i].station_id = key]

\* ((s.station_id, s.name) for s in stations_in.values())
StationPairs == [i \in DOMAIN stations_in |->
                    <<stations_in[i].station_id, stations_in[i].name>>]

\* Python's tuple < tuple on two pairs of strings
PairLess(x, y) ==
    \/ StrLess(x[1], y[1])
    \/ x[1] = y[1] /\ StrLess(x[2], y[2])

\* a mutant lists the keys in descending order
RECURSIVE SortedKeysDescending(_)
SortedKeysDescending(S) ==
    IF S = {} THEN <<>>
    ELSE LET m == CHOOSE x \in S : \A y \in S \ {x} : PairLess(y, x)
         IN  <<m>> \o SortedKeysDescending(S \ {m})

\* sorted(...) of the keys of the accumulator
RECURSIVE SortedKeys(_)
SortedKeys(S) ==
    IF S = {} THEN <<>>
    ELSE LET m == CHOOSE x \in S : \A y \in S \ {x} : PairLess(x, y)
         IN  <<m>> \o SortedKeys(S \ {m})

\* the distance of two stations of the dictionary, as haversine_m is called
StationDistance(a, b) ==
    haversine_m(StationIn(a).lat, StationIn(a).lon,
                StationIn(b).lat, StationIn(b).lon)

----------------------------------------------------------------------------
(* Topology Builder, basic variant (build_graph.py) *)

\* the stops of the line at index l of stops_by_line
LineStopsAt(l) == stops_by_line[l].stops

\* the next position (line, i) at or after (l, i) at which the loop
\* "for i in range(len(line_stops) - 1)" has an iteration
RECURSIVE PairPos(_, _)
PairPos(l, i) ==
    IF l > Len(stops_by_line) THEN <<l, 1>>
    ELSE IF i < Len(LineStopsAt(l)) THEN <<l, i>>
    ELSE PairPos(l + 1, 1)

\* pair = (fa, fb) if fa < fb else (fb, fa)
NormPair(fa, fb) == IF StrLess(fa, fb) THEN <<fa, fb>> ELSE <<fb, fa>>

\* edges[pair] = min(edges.get(pair, dist), dist)
MinInto(d, key, dist) ==
    (key :> Min(IF key \in DOMAIN d THEN d[key] ELSE dist, dist)) @@ d

\* the accumulator after the body of the loop for the consecutive stops a, b
\* whose distance is computed: the guard, the normalised pair, the minimum
EdgeAfterPair(d, m, a, b) ==
    IF a = b \/ a \notin StationKeysIn \/ b \notin StationKeysIn THEN d
    ELSE MinInto(d, NormPair(m[a], m[b]), StationDistance(a, b).value)

\* the accumulator after the iterations of the loop from position (l, i) on
RECURSIVE EdgesFrom(_, _, _, _)
EdgesFrom(d, m, l, i) ==
    LET p == PairPos(l, i)
    IN  IF p[1] > Len(stops_by_line) THEN d
        ELSE EdgesFrom(EdgeAfterPair(d, m, LineStopsAt(p[1])[p[2]],
                                     LineStopsAt(p[1])[p[2] + 1]),
                       m, p[1], p[2] + 1)

\* id_map and the list of stations
BuildIdsBasic ==
    /\ pc = "transform" /\ variant = "basic"
    /\ LET m == build_unique_ids(StationPairs, StationPrefix)
       IN  /\ id_map' = m
           /\ stations' = [i \in DOMAIN stations_in |->
                             [id   |-> m[stations_in[i].station_id],
                              name |-> stations_in[i].name,
                              lat  |-> stations_in[i].lat,
                              lon  |-> stations_in[i].lon]]
    /\ edges' = EmptyMap
    /\ li' = PairPos(1, 1)[1]
    /\ si' = PairPos(1, 1)[2]
    /\ pc' = "edges"
    /\ UNCHANGED <<raised, route_id_map, connections, routes, servings,
                   station_types, removed>>
    /\ UNCHANGED <<idvars, distvars, shapevars, inputvars, mainvars>>

\* one iteration of the loop over the consecutive stops of the lines
EdgeStep ==
    /\ pc = "edges" /\ li <= Len(stops_by_line)
    /\ LET a == LineStopsAt(li)[si]
           b == LineStopsAt(li)[si + 1]
       IN  IF a = b \/ a \notin StationKeysIn \/ b \notin StationKeysIn
           THEN /\ UNCHANGED <<edges, raised>>
                /\ li' = PairPos(li, si + 1)[1]
                /\ si' = PairPos(li, si + 1)[2]
                /\ pc' = "edges"
           ELSE LET r == StationDistance(a, b)
                IN  IF r.raised # ""
                    THEN /\ raised' = r.raised
                         /\ pc' = "raised"
                         /\ UNCHANGED <<edges, li, si>>
                    ELSE /\ edges' = EdgeAfterPair(edges, id_map, a, b)
                         /\ li' = PairPos(li, si + 1)[1]
                         /\ si' = PairPos(li, si + 1)[2]
                         /\ pc' = "edges"
                         /\ UNCHANGED raised
    /\ UNCHANGED <<id_map, route_id_map, stations, connections, routes,
                   servings, station_types, removed>>
    /\ UNCHANGED <<idvars, distvars, shapevars, inputvars, mainvars>>

\* a mutant emits the forward record only, whatever the mode
RECURSIVE EdgeRecordsForwardOnly(_, _, _)
EdgeRecordsForwardOnly(keys, d, both) ==
    IF keys = <<>> THEN <<>>
    ELSE LET k == keys[1]
         IN  <<[src |-> k[1], dst |-> k[2], distance |-> d[k]]>>
             \o EdgeRecordsForwardOnly(Tail(keys), d, both)

\* the records of the sorted edges, both directions if directed
RECURSIVE EdgeRecords(_, _, _)
EdgeRecords(keys, d, both) ==
    IF keys = <<>> THEN <<>>
    ELSE LET k == keys[1]
         IN  <<[src |-> k[1], dst |-> k[2], distance |-> d[k]]>>
             \o (IF both
                 THEN <<[src |-> k[2], dst |-> k[1], distance |-> d[k]]>>
                 ELSE <<>>)
             \o EdgeRecords(Tail(keys), d, both)

\* the list of connections, and the return
EmitConnections ==
    /\ pc = "edges" /\ li > Len(stops_by_line)
    /\ connections' = EdgeRecords(SortedKeys(DOMAIN edges), edges, directed)
    /\ pc' = "transformed"
    /\ UNCHANGED <<raised, id_map, route_id_map, stations, edges, routes,
                   servings, station_types, li, si, removed>>
    /\ UNCHANGED <<idvars, distvars, shapevars, inputvars, mainvars>>

\* connected = {c["src"] ...} | {c["dst"] ...}
Connected(conns) ==
    {conns[i].src : i \in DOMAIN conns} \cup {conns[i].dst : i \in DOMAIN conns}

\* main, after transform: the sanitize block
Sanitize ==
    /\ pc = "transformed" /\ variant = "basic"
    /\ IF sanitize
       THEN /\ removed' = Len(stations) - Cardinality(Connected(connections))
            /\ stations' = SelectSeq(stations,
                               LAMBDA s : s.id \in Connected(connections))
       ELSE UNCHANGED <<removed, stations>>
    /\ pc' = "write"
    /\ UNCHANGED <<raised, id_map, route_id_map, edges, connections, routes,
                   servings, station_types, li, si>>
    /\ UNCHANGED <<idvars, distvars, shapevars, inputvars, mainvars>>

----------------------------------------------------------------------------
(* Topology Builder, extended variant (nimby_rails.py) *)

\* the uppercase form of every character
UpperOf ==
    [c \in Range(Chars) |->
        IF c \in Range(LowerChars)
        THEN UpperChars[CHOOSE i \in DOMAIN LowerChars : LowerChars[i] = c]
        ELSE c]

\* str.upper()
RECURSIVE Upper(_)
Upper(s) ==
    IF s = <<>> THEN <<>> ELSE <<UpperOf[s[1]]>> \o Upper(Tail(s))

\* text.replace(" ", "")
RECURSIVE RemoveSpaces(_)
RemoveSpaces(s) ==
    IF s = <<>> THEN <<>>
    ELSE (IF s[1] = " " THEN <<>> ELSE <<s[1]>>) \o RemoveSpaces(Tail(s))

\* s.startswith(prefix)
StartsWith(s, prefix) ==
    Len(s) >= Len(prefix) /\ SubSeq(s, 1, Len(prefix)) = prefix

\* sub in s
Contains(s, sub) ==
    \E k \in 0..(Len(s) - Len(sub)) : SubSeq(s, k + 1, k + Len(sub)) = sub

\* re.match(r"^X\d+", s) for a letter X
MatchesLetterDigits(s, letter) ==
    Len(s) >= 2 /\ s[1] = letter /\ s[2] \in Range(DigitChars)

infer_transport_type(code, name) ==
    LET text    == Strip(Upper(code \o <<" ">> \o name), {" "})
        compact == RemoveSpaces(text)
    IN  IF MatchesLetterDigits(compact, "U") THEN "Metro"
        ELSE IF MatchesLetterDigits(compact, "S") THEN "UrbanRail"
        ELSE IF Contains(text, <<"T","R","A","M">>) THEN "Tram"
        ELSE IF StartsWith(text, <<"B","U","S">>) \/ StartsWith(compact, <<"B">>)
             THEN "Bus"
        ELSE "Train"

normalize_route_name(code, name) ==
    LET stripped  == Strip(code, {" "})
        candidate == IF stripped = <<>> THEN Strip(name, {" "}) ELSE stripped
    IN  IF candidate = <<>> THEN <<"R","O","U","T","E">>
        ELSE SubSeq(candidate, 1, Min(10, Len(candidate)))

\* the transport types in the order of sorted()
TypeOrder == <<"Bus", "Metro", "Train", "Tram", "UrbanRail">>

\* a mutant leaves out the default of a station that no line serves
SortedTypesNoDefault(types) ==
    SelectSeq(TypeOrder, LAMBDA t : t \in types)

\* sorted(types) if types else ["Train"]
SortedTypes(types) ==
    IF types = {} THEN <<"Train">>
    ELSE SelectSeq(TypeOrder, LAMBDA t : t \in types)

\* insertion of a line into a list sorted by line_id
RECURSIVE InsertLine(_, _)
InsertLine(sorted, l) ==
    IF sorted = <<>> THEN <<l>>
    ELSE IF StrLess(l.line_id, sorted[1].line_id) THEN <<l>> \o sorted
    ELSE <<sorted[1]>> \o InsertLine(Tail(sorted), l)

\* sorted(lines_in.values(), key=lambda x: x.line_id)
RECURSIVE SortLines(_)
SortLines(ls) ==
    IF ls = <<>> THEN <<>>
    ELSE InsertLine(SortLines(SubSeq(ls, 1, Len(ls) - 1)), ls[Len(ls)])

\* stops_by_line.get(line_id, []), as station keys
StopsOf(line_id) ==
    IF \E l \in DOMAIN stops_by_line : stops_by_line[l].line_id = line_id
    THEN stops_by_line[CHOOSE l \in DOMAIN stops_by_line :
                          stops_by_line[l].line_id = line_id].stops
    ELSE <<>>

\* the line of the running iteration and its stops
CurrentLine == SortLines(lines_in)[li]

CurrentStops == StopsOf(CurrentLine.line_id)

\* ((l.line_id, l.name) for l in lines_in.values())
LinePairs == [i \in DOMAIN lines_in |-> <<lines_in[i].line_id, lines_in[i].name>>]

\* the accumulators, the two identifier maps and the list of stations
BuildIdsExtended ==
    /\ pc = "transform" /\ variant = "extended"
    /\ LET m == build_unique_ids(StationPairs, StationPrefix)
       IN  /\ id_map' = m
           /\ stations' = [i \in DOMAIN stations_in |->
                             [identifier |-> m[stations_in[i].station_id],
                              name       |-> stations_in[i].name,
                              latitude   |-> stations_in[i].lat,
                              longitude  |-> stations_in[i].lon,
                              types      |-> <<>>]]
           /\ station_types' = [sid \in {m[k] : k \in DOMAIN m} |-> {}]
    /\ route_id_map' = build_unique_ids(LinePairs, RoutePrefix)
    /\ routes' = <<>>
    /\ servings' = <<>>
    /\ edges' = EmptyMap
    /\ li' = 1
    /\ si' = 1
    /\ pc' = "line"
    /\ UNCHANGED <<raised, connections, removed>>
    /\ UNCHANGED <<idvars, distvars, shapevars, inputvars, mainvars>>

\* the head of one iteration of the loop over the sorted lines: the station
\* sequence, the shape and the route record
LineStart ==
    /\ pc = "line" /\ li <= Len(lines_in)
    /\ LET line == CurrentLine
           line_stops == CurrentStops
       IN  IF \E i \in DOMAIN line_stops : line_stops[i] \notin DOMAIN id_map
           THEN /\ raised' = "KeyError"
                /\ pc' = "raised"
                /\ UNCHANGED <<routes, li, si>>
           ELSE LET seq == [i \in DOMAIN line_stops |-> id_map[line_stops[i]]]
                IN  /\ routes' = Append(routes,
                          [identifier     |-> route_id_map[line.line_id],
                           name           |-> normalize_route_name(line.code, line.name),
                           transport_type |-> infer_transport_type(line.code, line.name),
                           route_type     |-> IF seq = <<>> THEN "Linear"
                                              ELSE infer_route_type(seq),
                           description    |-> line.name,
                           source_line_id |-> line.line_id])
                    /\ pc' = IF line_stops = <<>> THEN "line" ELSE "servings"
                    /\ li' = IF line_stops = <<>> THEN li + 1 ELSE li
                    /\ si' = 1
                    /\ UNCHANGED raised
    /\ UNCHANGED <<id_map, route_id_map, stations, edges, connections,
                   servings, station_types, removed>>
    /\ UNCHANGED <<idvars, distvars, shapevars, inputvars, mainvars>>

\* a mutant numbers the servings from 0, as enumerate does
ServingRecordFromZero(rid, sid, i, n) ==
    [route_identifier   |-> rid,
     station_identifier |-> sid,
     sequence           |-> i,
     is_terminus        |-> i = 0 \/ i = n - 1]

\* the serving record of the stop at 0-based index i of n stops
ServingRecord(rid, sid, i, n) ==
    [route_identifier   |-> rid,
     station_identifier |-> sid,
     sequence           |-> i + 1,
     is_terminus        |-> i = 0 \/ i = n - 1]

\* one iteration of the loop "for i, st in enumerate(line_stops)"
ServingStep ==
    /\ pc = "servings"
    /\ LET n   == Len(CurrentStops)
           sid == id_map[CurrentStops[si]]
       IN  /\ servings' = Append(servings,
                  ServingRecord(route_id_map[CurrentLine.line_id], sid, si - 1, n))
           /\ station_types' = [station_types EXCEPT ![sid] =
                  @ \cup {infer_transport_type(CurrentLine.code, CurrentLine.name)}]
           /\ IF si < n
              THEN /\ si' = si + 1 /\ pc' = "servings" /\ li' = li
              ELSE IF n >= 2
              THEN /\ si' = 1 /\ pc' = "conns" /\ li' = li
              ELSE /\ si' = 1 /\ pc' = "line" /\ li' = li + 1
    /\ UNCHANGED <<raised, id_map, route_id_map, stations, edges, connections,
                   routes, removed>>
    /\ UNCHANGED <<idvars, distvars, shapevars, inputvars, mainvars>>

\* connections[key] = min(connections[key], dist) if key in connections
\* else dist
MinOrSet(d, key, dist) ==
    (key :> IF key \in DOMAIN d THEN Min(d[key], dist) ELSE dist) @@ d

\* a mutant updates the key of the travelled direction only
BothKeysForwardOnly(fa, fb) == << <<fa, fb>> >>

\* the keys of "for key in ((fa, fb), (fb, fa))"
BothKeys(fa, fb) == << <<fa, fb>>, <<fb, fa>> >>

\* the body of that loop over the keys
RECURSIVE MinOrSetAll(_, _, _)
MinOrSetAll(d, keys, dist) ==
    IF keys = <<>> THEN d
    ELSE MinOrSetAll(MinOrSet(d, keys[1], dist), Tail(keys), dist)

\* one iteration of the loop "for i in range(len(line_stops) - 1)"
ConnStep ==
    /\ pc = "conns"
    /\ LET a == CurrentStops[si]
           b == CurrentStops[si + 1]
           last == si + 1 >= Len(CurrentStops)
       IN  IF a = b \/ a \notin StationKeysIn \/ b \notin StationKeysIn
           THEN /\ UNCHANGED <<edges, raised>>
                /\ si' = IF last THEN 1 ELSE si + 1
                /\ li' = IF last THEN li + 1 ELSE li
                /\ pc' = IF last THEN "line" ELSE "conns"
           ELSE LET r == StationDistance(a, b)
                    fa == id_map[a]
                    fb == id_map[b]
                IN  IF r.raised # ""
                    THEN /\ raised' = r.raised
                         /\ pc' = "raised"
                         /\ UNCHANGED <<edges, li, si>>
                    ELSE /\ edges' = MinOrSetAll(edges, BothKeys(fa, fb), r.value)
                         /\ si' = IF last THEN 1 ELSE si + 1
                         /\ li' = IF last THEN li + 1 ELSE li
                         /\ pc' = IF last THEN "line" ELSE "conns"
                         /\ UNCHANGED raised
    /\ UNCHANGED <<id_map, route_id_map, stations, connections, routes,
                   servings, station_types, removed>>
    /\ UNCHANGED <<idvars, distvars, shapevars, inputvars, mainvars>>

\* station_by_id[sid]: the last station of the list with this identifier
LastWithId(sts, sid) ==
    CHOOSE i \in DOMAIN sts :
        /\ sts[i].identifier = sid
        /\ \A j \in DOMAIN sts : sts[j].identifier = sid => j <= i

\* the types of the stations, the sorted connection rows, and the return
Finish ==
    /\ pc = "line" /\ li > Len(lines_in)
    /\ stations' = [i \in DOMAIN stations |->
           IF i = LastWithId(stations, stations[i].identifier)
           THEN [stations[i] EXCEPT
                    !.types = SortedTypes(station_types[stations[i].identifier])]
           ELSE stations[i]]
    /\ connections' =
           LET keys == SortedKeys(DOMAIN edges)
           IN  [k \in DOMAIN keys |->
                  [from_identifier |-> keys[k][1],
                   to_identifier   |-> keys[k][2],
                   distance        |-> edges[keys[k]]]]
    /\ pc' = "write"
    /\ UNCHANGED <<raised, id_map, route_id_map, edges, routes, servings,
                   station_types, li, si, removed>>
    /\ UNCHANGED <<idvars, distvars, shapevars, inputvars, mainvars>>

----------------------------------------------------------------------------
(* Inputs of the Topology Builder *)

\* the largest number of rows of the line_stops table
MaxStops == 3

K1 == <<"k","1">>

K2 == <<"k","2">>

K3 == <<"k","3">>

\* a station key that no station has
Dangling == <<"z","z">>

L1 == <<"l","1">>

L2 == <<"l","2">>

Elm == <<"E","l","m">>

Elm2 == <<"E","l","m"," ","2">>

\* three stations of one meridian: K1 and K2 at the same point, K3 three
\* steps (1.5 m) north of them
StationTables ==
    { << [station_id |-> K1, name |-> n1, lat |-> 0, lon |-> 0],
         [station_id |-> K2, name |-> n2, lat |-> 0, lon |-> 0],
         [station_id |-> K3, name |-> n3, lat |-> 3, lon |-> 0] >>
      : n1 \in {Elm}, n2 \in {Elm, Elm2}, n3 \in {Elm, Elm2} }

\* the lines tables: two lines in key order; two lines of one name, inserted
\* in the other order; one line only (the stops of L2 are then of no line)
LineTables ==
    { << [line_id |-> L1, name |-> <<"R","i","n","g">>, code |-> <<"U","1">>],
         [line_id |-> L2, name |-> <<"T","r","a","m"," ","2">>, code |-> <<>>] >>,
      << [line_id |-> L2, name |-> <<"S"," ","1">>, code |-> <<>>],
         [line_id |-> L1, name |-> <<"S"," ","1">>, code |-> <<>>] >>,
      << [line_id |-> L1, name |-> <<"B","u","s">>, code |-> <<"b","7">>] >> }

StopKeys == {K1, K2, K3, Dangling}

\* the stops dictionary of the rows "ORDER BY line_id, stop_index": a line
\* has an entry if it has a row
StopTable(s1, s2) ==
    (IF s1 = <<>> THEN <<>> ELSE <<[line_id |-> L1, stops |-> s1]>>)
    \o (IF s2 = <<>> THEN <<>> ELSE <<[line_id |-> L2, stops |-> s2]>>)

Init ==
    /\ pc = "transform"
    /\ raised = ""
    /\ \/ /\ variant = "basic"
          /\ directed \in BOOLEAN
          /\ sanitize \in BOOLEAN
          /\ lines_in = <<>>
       \/ /\ variant = "extended"
          /\ directed = FALSE
          /\ sanitize = FALSE
          /\ lines_in \in LineTables
    /\ stations_in \in StationTables
    /\ \E n1 \in 0..MaxStops : \E n2 \in 0..(MaxStops - n1) :
          \E s1 \in [1..n1 -> StopKeys] : \E s2 \in [1..n2 -> StopKeys] :
             stops_by_line = StopTable(s1, s2)
    /\ id_map = EmptyMap /\ route_id_map = EmptyMap
    /\ stations = <<>> /\ edges = EmptyMap /\ connections = <<>>
    /\ routes = <<>> /\ servings = <<>> /\ station_types = EmptyMap
    /\ li = 0 /\ si = 0 /\ removed = 0
    /\ MainIdle
    /\ IdsIdle
    /\ DistIdle
    /\ ShapeIdle

Next ==
    \/ BuildIdsBasic
    \/ EdgeStep
    \/ EmitConnections
    \/ Sanitize
    \/ BuildIdsExtended
    \/ LineStart
    \/ ServingStep
    \/ ConnStep
    \/ Finish

Spec == Init /\ [][Next]_vars

----------------------------------------------------------------------------
(* main of both variants: the checks, the load, the build and the write *)

\* the largest number of rows of the line_stops table of a whole run
MaxMainStops == 2

\* the tables that validate_input_schema requires
RequiredTables ==
    IF variant = "basic" THEN {"stations", "line_stops"}
    ELSE {"stations", "lines", "line_stops"}

\* a mutant finds no table missing
MissingTablesNone(required, existing) == {}

\* missing = sorted(required - existing)
MissingTables(required, existing) == required \ existing

\* output.exists()
OutputExists == out_file # "absent"

\* build_graph.main: the two checks of the arguments
CheckArgsBasic ==
    /\ pc = "main" /\ variant = "basic"
    /\ pc' = IF ~input_is_file THEN "failed"
             ELSE IF OutputExists /\ ~force THEN "failed"
             ELSE "connect"
    /\ UNCHANGED <<raised, idvars, distvars, shapevars, inputvars, buildvars,
                   mainvars>>

\* nimby_rails.main: the check of the input and ensure_overwrite, which
\* removes an output that exists if force is given
CheckArgsExtended ==
    /\ pc = "main" /\ variant = "extended"
    /\ IF ~input_is_file
       THEN pc' = "failed" /\ UNCHANGED out_file
       ELSE IF OutputExists
            THEN IF ~force
                 THEN pc' = "failed" /\ UNCHANGED out_file
                 ELSE out_file' = "absent" /\ pc' = "connect"
            ELSE pc' = "connect" /\ UNCHANGED out_file
    /\ UNCHANGED <<input_is_file, db_tables, force, out_at_start>>
    /\ UNCHANGED <<raised, idvars, distvars, shapevars, inputvars, buildvars>>

\* validate_input_schema and load_input: the run fails if a required table
\* is missing, and has the dictionaries of the rows otherwise
LoadInput ==
    /\ pc = "connect"
    /\ IF MissingTables(RequiredTables, db_tables) # {}
       THEN /\ pc' = "failed"
            /\ UNCHANGED <<stations_in, lines_in, stops_by_line>>
       ELSE /\ pc' = "transform"
            /\ stations_in' \in StationTables
            /\ IF variant = "basic" THEN lines_in' = <<>>
               ELSE lines_in' \in LineTables
            /\ \E n1 \in 0..MaxMainStops : \E n2 \in 0..(MaxMainStops - n1) :
                  \E s1 \in [1..n1 -> StopKeys] : \E s2 \in [1..n2 -> StopKeys] :
                     stops_by_line' = StopTable(s1, s2)
    /\ UNCHANGED <<variant, directed, sanitize>>
    /\ UNCHANGED <<raised, idvars, distvars, shapevars, buildvars, mainvars>>

\* write_graphml, write_cypher: the output path is opened for writing and
\* the document is written
Write ==
    /\ pc = "write"
    /\ out_file' = "new"
    /\ pc' = "done"
    /\ UNCHANGED <<input_is_file, db_tables, force, out_at_start>>
    /\ UNCHANGED <<raised, idvars, distvars, shapevars, inputvars, buildvars>>

\* the start of a run of either program
InitMain ==
    /\ pc = "main"
    /\ raised = ""
    /\ \/ /\ variant = "basic"
          /\ directed \in BOOLEAN
          /\ sanitize \in BOOLEAN
       \/ /\ variant = "extended"
          /\ directed = FALSE
          /\ sanitize = FALSE
    /\ input_is_file \in BOOLEAN
    /\ db_tables \in SUBSET {"stations", "lines", "line_stops"}
    /\ force \in BOOLEAN
    /\ out_file \in {"absent", "old"}
    /\ out_at_start = out_file
    /\ stations_in = <<>> /\ lines_in = <<>> /\ stops_by_line = <<>>
    /\ id_map = EmptyMap /\ route_id_map = EmptyMap
    /\ stations = <<>> /\ edges = EmptyMap /\ connections = <<>>
    /\ routes = <<>> /\ servings = <<>> /\ station_types = EmptyMap
    /\ li = 0 /\ si = 0 /\ removed = 0
    /\ IdsIdle
    /\ DistIdle
    /\ ShapeIdle

NextMain ==
    \/ CheckArgsBasic
    \/ CheckArgsExtended
    \/ LoadInput
    \/ BuildIdsBasic
    \/ EdgeStep
    \/ EmitConnections
    \/ Sanitize
    \/ BuildIdsExtended
    \/ LineStart
    \/ ServingStep
    \/ ConnStep
    \/ Finish
    \/ Write

SpecMain == InitMain /\ [][NextMain]_vars

----------------------------------------------------------------------------
(* Claims about the Identifier Assigner *)

\* the base slug the code computes for the i-th pair
BaseOf(pairs, i) == EntryOf(pairs[i], fallback_prefix)[2]

\* no two source keys of a mapping have the same identifier
PairwiseDistinct(map) ==
    \A k1, k2 \in DOMAIN map : k1 # k2 => map[k1] # map[k2]

\* C1: the identifiers returned for pairwise distinct source keys are
\* pairwise distinct, also when a suffixed identifier base_N coincides with
\* the bare base slug of another entry.
C1_IdsPairwiseDistinct ==
    /\ pc = "ids_assigned" => PairwiseDistinct(mapping)
    /\ pc = "ids_reassigned" => PairwiseDistinct(mapping2)

\* C2: the mapping returned for a set of pairs is the same for every order
\* in which the pairs are given.
C2_OrderIndependent ==
    pc = "ids_reassigned" => mapping2 = mapping

\* C2 witness: a second run over a different order of pairs that share a base
C2_Witness ==
    /\ pc = "ids_reassigned"
    /\ reordered # source_to_name
    /\ \E i, j \in DOMAIN source_to_name :
         i # j /\ BaseOf(source_to_name, i) = BaseOf(source_to_name, j)

\* the identifiers of a mapping follow the rank of the source key among the
\* keys of the same base slug
RankSuffixed(pairs, map) ==
    /\ DOMAIN map = KeysOf(pairs)
    /\ \A i \in DOMAIN pairs :
         LET key  == pairs[i][1]
             base == BaseOf(pairs, i)
             rank == 1 + Cardinality(
                        { j \in DOMAIN pairs :
                            /\ BaseOf(pairs, j) = base
                            /\ StrLess(pairs[j][1], key) })
         IN  map[key] =
               IF rank = 1 THEN base ELSE base \o <<"_">> \o Digits(rank)

\* C3: among the source keys that share a base slug, the smallest key gets
\* the bare slug and the N-th smallest gets base_slug + "_" + N.
C3_RankSuffix ==
    /\ pc = "ids_assigned" => RankSuffixed(source_to_name, mapping)
    /\ pc = "ids_reassigned" => RankSuffixed(reordered, mapping2)

\* C3 witness: three entries named "Central", given in another order than
\* that of their keys, get central, central_2, central_3 in key order
C3_Witness ==
    /\ pc = "ids_reassigned"
    /\ Len(reordered) = 3
    /\ StrLess(reordered[2][1], reordered[1][1])
    /\ \A i \in 1..3 : reordered[i][2] = <<"C","e","n","t","r","a","l">>
    /\ \E k1, k2, k3 \in DOMAIN mapping2 :
         /\ StrLess(k1, k2) /\ StrLess(k2, k3)
         /\ mapping2[k1] = <<"c","e","n","t","r","a","l">>
         /\ mapping2[k2] = <<"c","e","n","t","r","a","l","_","2">>
         /\ mapping2[k3] = <<"c","e","n","t","r","a","l","_","3">>

----------------------------------------------------------------------------
(* Claims about the Geo-Distance Calculator *)

\* C7: the distance function returns an integer >= 1 for every pair of
\* points, and exactly 1 when the two points coincide.
C7_DistanceAtLeastOne ==
    pc \in {"dist_returned", "dist_raised"} =>
        /\ raised = ""
        /\ distance \in Nat /\ distance >= 1
        /\ (lat1 = lat2 /\ lon1 = lon2) => distance = 1

----------------------------------------------------------------------------
(* Claims about the route shape *)

\* some station occurs at two positions of the sequence
HasRepeat(seq) == \E i, j \in DOMAIN seq : i < j /\ seq[i] = seq[j]

\* C9: a sequence of at least 2 stops whose first and last station are the
\* same is Circular; otherwise one with a repeated station is OutAndBack;
\* otherwise it is Linear.
C9_RouteShape ==
    pc = "shape_returned" =>
        LET n == Len(station_sequence)
            circular == n >= 2 /\ station_sequence[1] = station_sequence[n]
        IN  /\ circular => route_type = "Circular"
            /\ ~circular /\ HasRepeat(station_sequence)
                  => route_type = "OutAndBack"
            /\ ~circular /\ ~HasRepeat(station_sequence)
                  => route_type = "Linear"

\* C9 witness: [a, b, c, a] has been classified Circular (it has a repeated
\* station as well)
C9_Witness ==
    /\ pc = "shape_returned"
    /\ station_sequence = << <<"a">>, <<"b">>, <<"c">>, <<"a">> >>
    /\ route_type = "Circular"

----------------------------------------------------------------------------
(* Claims about the Topology Builder *)

\* the build has returned its collections
Built == pc \in {"transformed", "write"}

\* the stop lists of the lines the builder goes through
ProcessedStops ==
    IF variant = "basic"
    THEN [l \in DOMAIN stops_by_line |-> stops_by_line[l].stops]
    ELSE [l \in DOMAIN lines_in |-> StopsOf(SortLines(lines_in)[l].line_id)]

\* the positions <<line, i>> at which the stations A and B are consecutive
\* stops, in either direction
Occurrences(A, B) ==
    { p \in (DOMAIN ProcessedStops) \X (1..MaxStops) :
        /\ p[2] < Len(ProcessedStops[p[1]])
        /\ {ProcessedStops[p[1]][p[2]], ProcessedStops[p[1]][p[2] + 1]} = {A, B} }

SetMin(S) == CHOOSE x \in S : \A y \in S : x <= y

\* the least distance computed over the occurrences of the pair
MinObserved(A, B) ==
    SetMin({ StationDistance(ProcessedStops[p[1]][p[2]],
                             ProcessedStops[p[1]][p[2] + 1]).value
             : p \in Occurrences(A, B) })

\* the endpoints of an emitted record
RecordFrom(c) == IF variant = "basic" THEN c.src ELSE c.from_identifier

RecordTo(c) == IF variant = "basic" THEN c.dst ELSE c.to_identifier

\* C4: the Topology Builder never raises; a stop whose station key is absent
\* from the station set is dropped and the build completes.
C4_NeverRaises == pc # "raised" /\ raised = ""

\* C5: for two distinct stations that are consecutive stops of some line,
\* exactly one edge is stored for the unordered pair (the extended variant
\* keeps it under both directed keys), and its distance is the minimum of
\* the distances computed over the occurrences of that pair and no other.
C5_OneEdgeMinDistance ==
    Built =>
        \A A, B \in StationKeysIn :
            (A # B /\ Occurrences(A, B) # {}) =>
                LET keys == { k \in DOMAIN edges :
                                {k[1], k[2]} = {id_map[A], id_map[B]} }
                IN  /\ variant = "basic" => Cardinality(keys) = 1
                    /\ variant = "extended" =>
                           keys = { <<id_map[A], id_map[B]>>,
                                    <<id_map[B], id_map[A]>> }
                    /\ \A k \in keys : edges[k] = MinObserved(A, B)

\* C6: no emitted edge or connection has the same station identifier at
\* both ends.
C6_NoSelfLoops ==
    Built =>
        \A i \in DOMAIN connections :
            RecordFrom(connections[i]) # RecordTo(connections[i])

\* the number of serving records of the lines before the k-th sorted line
RECURSIVE ServingOffset(_)
ServingOffset(k) ==
    IF k <= 1 THEN 0
    ELSE ServingOffset(k - 1)
         + Len(StopsOf(SortLines(lines_in)[k - 1].line_id))

\* C8: for every line with n stops the extended builder emits exactly n
\* serving records, with the sequence numbers 1..n in stop order, and the
\* terminus flag is true exactly at the first and the last position.
C8_ServingsDense ==
    (variant = "extended" /\ Built) =>
        /\ Len(servings) = ServingOffset(Len(lines_in) + 1)
        /\ \A k \in DOMAIN lines_in :
             LET line  == SortLines(lines_in)[k]
                 stops == StopsOf(line.line_id)
             IN  \A i \in DOMAIN stops :
                   servings[ServingOffset(k) + i] =
                     [route_identifier   |-> route_id_map[line.line_id],
                      station_identifier |-> id_map[stops[i]],
                      sequence           |-> i,
                      is_terminus        |-> (i = 1 \/ i = Len(stops))]

\* C8 witness: a built line of three stops, with the flags true, false, true
C8_Witness ==
    /\ variant = "extended" /\ Built
    /\ \E k \in DOMAIN lines_in :
         /\ Len(StopsOf(SortLines(lines_in)[k].line_id)) = 3
         /\ servings[ServingOffset(k) + 1].is_terminus
         /\ ~servings[ServingOffset(k) + 2].is_terminus
         /\ servings[ServingOffset(k) + 2].sequence = 2
         /\ servings[ServingOffset(k) + 3].is_terminus

\* the identifiers of the station list that transform returned
ReturnedIds == [i \in DOMAIN stations_in |-> id_map[stations_in[i].station_id]]

\* the stations of that list with no incident edge
Isolated ==
    { i \in DOMAIN stations_in : ReturnedIds[i] \notin Connected(connections) }

\* C10: after sanitize every remaining station is an endpoint of an edge,
\* every station with an incident edge is retained, and the number of
\* stations removed, and the count reported, is the number of stations that
\* had no incident edge.
C10_SanitizeExact ==
    (pc = "write" /\ variant = "basic" /\ sanitize) =>
        /\ \A j \in DOMAIN stations : stations[j].id \in Connected(connections)
        /\ \A i \in DOMAIN stations_in :
             i \notin Isolated =>
                \E j \in DOMAIN stations :
                    /\ stations[j].id = ReturnedIds[i]
                    /\ stations[j].name = stations_in[i].name
        /\ Len(stations_in) - Len(stations) = Cardinality(Isolated)
        /\ removed = Cardinality(Isolated)

\* the endpoints of the record at position i of the emitted list
EndsAt(i) == <<RecordFrom(connections[i]), RecordTo(connections[i])>>

\* C11, as stated: the emitted edge/connection list is in ascending order of
\* (first identifier, second identifier), in the extended variant and in the
\* basic variant in undirected and in directed mode.
C11_AscendingInEveryMode ==
    Built =>
        \A i \in DOMAIN connections :
            i < Len(connections) =>
                \/ PairLess(EndsAt(i), EndsAt(i + 1))
                \/ EndsAt(i) = EndsAt(i + 1)

\* C11, amended: the list is in ascending order of (first identifier, second
\* identifier) in the extended variant and in the undirected mode of the
\* basic variant; in the directed mode of the basic variant the records at
\* the odd positions are in that order, and each is followed at once by the
\* record of the reverse direction.
C11_AscendingByStoredPair ==
    Built =>
        IF variant = "basic" /\ directed
        THEN /\ Len(connections) % 2 = 0
             /\ \A i \in DOMAIN connections :
                  /\ (i % 2 = 1 /\ i + 2 <= Len(connections)) =>
                        PairLess(EndsAt(i), EndsAt(i + 2))
                  /\ i % 2 = 1 =>
                        EndsAt(i + 1) = <<EndsAt(i)[2], EndsAt(i)[1]>>
        ELSE \A i \in DOMAIN connections :
                 i < Len(connections) => PairLess(EndsAt(i), EndsAt(i + 1))

\* C11 witness: a directed list of two stored pairs, in which the reverse
\* record of the first pair stands before the record of the second pair
C11_Witness ==
    /\ Built /\ variant = "basic" /\ directed
    /\ Len(connections) = 4
    /\ PairLess(EndsAt(3), EndsAt(2))

\* the record of a stored pair, and the record of its reverse direction
ForwardRecord(k) == [src |-> k[1], dst |-> k[2], distance |-> edges[k]]

ReverseRecord(k) == [src |-> k[2], dst |-> k[1], distance |-> edges[k]]

\* the positions of the emitted list that hold one of the records rs
PositionsOf(rs) == { i \in DOMAIN connections : connections[i] \in rs }

\* C13: in the basic variant the undirected mode emits exactly one record
\* per stored unordered pair; the directed mode emits exactly two, (a, b)
\* and (b, a), both with the pair's stored minimum distance; there is no
\* other record.
C13_RecordsPerStoredPair ==
    (variant = "basic" /\ Built) =>
        /\ \A k \in DOMAIN edges :
             IF directed
             THEN /\ Cardinality(PositionsOf({ForwardRecord(k),
                                               ReverseRecord(k)})) = 2
                  /\ PositionsOf({ForwardRecord(k)}) # {}
                  /\ PositionsOf({ReverseRecord(k)}) # {}
             ELSE /\ Cardinality(PositionsOf({ForwardRecord(k)})) = 1
                  /\ ForwardRecord(k) # ReverseRecord(k) =>
                        PositionsOf({ReverseRecord(k)}) = {}
        /\ \A i \in DOMAIN connections :
             \E k \in DOMAIN edges :
                 \/ connections[i] = ForwardRecord(k)
                 \/ directed /\ connections[i] = ReverseRecord(k)
        /\ Len(connections) =
             (IF directed THEN 2 ELSE 1) * Cardinality(DOMAIN edges)

\* C13 witness: a directed list of two stored pairs of different distance,
\* each with its two records
C13_Witness ==
    /\ variant = "basic" /\ Built /\ directed
    /\ Cardinality(DOMAIN edges) = 2
    /\ \E k1, k2 \in DOMAIN edges : edges[k1] < edges[k2]
    /\ \A k \in DOMAIN edges :
         /\ PositionsOf({ForwardRecord(k)}) # {}
         /\ PositionsOf({ReverseRecord(k)}) # {}

\* C14: in the extended variant, after any prefix of the consecutive stop
\* pairs has been processed, the connections accumulator is symmetric: the
\* key (a, b) is present exactly if (b, a) is, and both hold the same
\* distance.
C14_AccumulatorSymmetric ==
    variant = "extended" =>
        \A k \in DOMAIN edges :
            /\ <<k[2], k[1]>> \in DOMAIN edges
            /\ edges[<<k[2], k[1]>>] = edges[k]

\* C14 witness: inside the loop over the pairs of a line, after a first pair
\* has been stored under its two keys and before the next pair is processed
C14_Witness ==
    /\ variant = "extended" /\ pc = "conns" /\ si = 2
    /\ \E k \in DOMAIN edges :
         k[1] # k[2] /\ <<k[2], k[1]>> \in DOMAIN edges

\* the inferred transport types of the lines with at least one stop at one
\* of the stations of the keys ks
TypesOfLinesAt(ks) ==
    { infer_transport_type(lines_in[l].code, lines_in[l].name) :
        l \in { m \in DOMAIN lines_in :
                  \E j \in DOMAIN StopsOf(lines_in[m].line_id) :
                      StopsOf(lines_in[m].line_id)[j] \in ks } }

KeysWithId(sid) == { k \in DOMAIN id_map : id_map[k] = sid }

BasicDirectedTriples ==
    LET m    == build_unique_ids(StationPairs, StationPrefix)
        d    == EdgesFrom(EmptyMap, m, 1, 1)
        recs == EdgeRecords(SortedKeys(DOMAIN d), d, TRUE)
    IN  { <<recs[i].src, recs[i].dst, recs[i].distance>> : i \in DOMAIN recs }

\* the triples of the rows that the extended variant emitted
ExtendedTriples ==
    { <<connections[i].from_identifier, connections[i].to_identifier,
        connections[i].distance>> : i \in DOMAIN connections }

\* C15: for the same stations and the same stops_by_line, the set of the
\* (from, to, distance) records of the extended variant equals the set of
\* the (src, dst, distance) records of the basic variant in directed mode.
\* A run of the extended variant that ends without a list has to face an
\* empty list of the basic variant.
C15_SameRecordsAsBasicDirected ==
    /\ (variant = "extended" /\ pc = "write") =>
           ExtendedTriples = BasicDirectedTriples
    /\ (variant = "extended" /\ pc = "raised") =>
           BasicDirectedTriples = {}

----------------------------------------------------------------------------
(* Claims about the whole run *)

\* one of the fatal conditions holds: the input is missing, the output
\* existed and force is not given, a required table is missing, or the
\* build has failed
FatalCondition ==
    \/ ~input_is_file
    \/ out_at_start # "absent" /\ ~force
    \/ ~(RequiredTables \subseteq db_tables)
    \/ raised # ""

\* C12: each fatal condition (input missing, output exists without force,
\* required table missing, failure inside the build) stops the run before
\* any output artifact is created or written: the write step is never
\* reached in a run that fails, and no artifact of the run exists.
C12_NoOutputOnFatal ==
    FatalCondition => (pc \notin {"write", "done"} /\ out_file # "new")

\* C12 witness: a run that passed the checks and the load, and whose build
\* failed: it has written nothing
C12_Witness ==
    /\ pc = "raised" /\ raised = "KeyError"
    /\ input_is_file /\ RequiredTables \subseteq db_tables
    /\ out_at_start = "absent" /\ out_file = "absent"

\* C17: a run that ends in a fatal failure leaves an output file that
\* existed before the run unchanged; in particular, in the extended variant
\* with force, it still exists with its original content if the schema
\* validation or the build fails.
C17_OutputUnchangedOnFailure ==
    pc \in {"failed", "raised"} => out_file = out_at_start

====
